---- MODULE Spec2Model ----
(***************************************************************************)
(* The L0 machine of src/src/l0/machine.rs: a heap of cells, a register    *)
(* file of 33 cells, the heap top h, the scan cursor s, the mode, the fail *)
(* flag and the attached program; execute() of the six instructions,       *)
(* deref, bind, unify and reset_heap.                                      *)
(*                                                                         *)
(* Heap indices are the source's (from 0): heap index k is heap[k + 1].    *)
(* A call that indexes a Vec out of bounds panics: pc = "panic".  A call   *)
(* that never returns leaves pc = "hung" (deref on a cycle of references)  *)
(* or pc = "spin" (the loop of unify on a worklist that repeats).  All     *)
(* three are final.                                                        *)
(***************************************************************************)
EXTENDS Integers, Sequences, FiniteSets

VARIABLES heap, registers, h, s, fail, mode, program, pc, last, prev, pre,
          pending

machine == <<heap, registers, h, s, fail, mode, program>>
vars == <<heap, registers, h, s, fail, mode, program, pc, last, prev, pre,
          pending>>

\* ------------------------------------------------------------ bounds
NumRegs == 33
\* heap cells of the behaviours of Spec, SpecRef, SpecLoop
MaxHeap == 3
MaxHeapRef == 4
MaxHeapLoop == 5
\* heap cells of the behaviours of SpecUnify
MaxHeapUnify == 3
\* heap cells of the ground terms of SpecGround
MaxHeapGround == 10
\* entries of the worklist of unify
MaxPdl == 8

\* the operands of the instructions of Spec
Names == {"f", "g"}
Arities == {1, 2}
Regs == {0, 1}
Programs == {"P1"}

\* ------------------------------------------------------------ cells
Ref(v) == [tag |-> "Ref", n |-> v, f |-> "-"]
Str(v) == [tag |-> "Str", n |-> v, f |-> "-"]
NamedStr(n, f) == [tag |-> "NamedStr", n |-> n, f |-> f]

HeapCell(i) == [kind |-> "HeapCell", i |-> i]
RegNum(i) == [kind |-> "RegNum", i |-> i]
\* the two ways a call does not return an address
PanicAddr == [kind |-> "Panic", i |-> 0]
HangAddr == [kind |-> "Hang", i |-> 0]

\* heap[hc] of the source, for hc < heap.len()
At(hp, k) == hp[k + 1]
InHeap(hp, k) == k < Len(hp)
InRegs(r) == r < NumRegs

\* ------------------------------------------------------------ lookup
InBounds(hp, a) ==
    IF a.kind = "HeapCell" THEN InHeap(hp, a.i)
    ELSE a.kind = "RegNum" /\ InRegs(a.i)

lookup(hp, regs, a) ==
    IF a.kind = "HeapCell" THEN At(hp, a.i) ELSE regs[a.i]

\* ------------------------------------------------------------ deref
\* The loop of deref: a Ref cell is followed only when the address is a
\* heap address and the cell does not point at itself; a register address
\* is returned as it is.  fuel counts the heap cells not yet visited: a
\* chain longer than the heap is on a cycle and the loop never ends.
RECURSIVE DerefLoop(_, _, _, _)
DerefLoop(hp, regs, a, fuel) ==
    IF ~InBounds(hp, a) THEN PanicAddr
    ELSE LET c == lookup(hp, regs, a)
         IN  IF c.tag = "Ref" /\ a.kind = "HeapCell" /\ c.n # a.i
             THEN IF fuel = 0 THEN HangAddr
                  ELSE DerefLoop(hp, regs, HeapCell(c.n), fuel - 1)
             ELSE a

deref(hp, regs, a) == DerefLoop(hp, regs, a, Len(hp))

IsAddr(a) == a.kind \in {"HeapCell", "RegNum"}

\* ------------------------------------------------------------ bind
\* bind(a, val): the cell at a becomes Ref(val).  out is "panic" when the
\* index is outside the register file or the heap.
bind(hp, regs, a, val) ==
    IF ~InBounds(hp, a) THEN [heap |-> hp, regs |-> regs, out |-> "panic"]
    ELSE IF a.kind = "RegNum"
         THEN [heap |-> hp, regs |-> [regs EXCEPT ![a.i] = Ref(val)], out |-> "ok"]
         ELSE [heap |-> [hp EXCEPT ![a.i + 1] = Ref(val)], regs |-> regs, out |-> "ok"]

\* ------------------------------------------------------------ unify
\* for i in 1 .. n1: the indices the loop of unify visits (the end of a
\* Rust range is excluded)
ArgIndices(n1) == 1 .. (n1 - 1)

\* the addresses that loop pushes: a1 + i, a2 + i for each i, in order
ArgPairs(a1, a2, n1) ==
    LET m == Cardinality(ArgIndices(n1))
    IN  [k \in 1 .. 2 * m |->
            IF k % 2 = 1 THEN HeapCell(a1 + (k + 1) \div 2)
            ELSE HeapCell(a2 + k \div 2)]

UnifyResult(hp, regs, fl, out) ==
    [heap |-> hp, regs |-> regs, fail |-> fl, out |-> out]

\* The while loop of unify from a worklist pdl, fail being false.  seen
\* holds the loop states already met in this call: the loop is
\* deterministic, so a state met twice is met forever ("spin").  A worklist
\* longer than MaxPdl is outside the model ("overflow").
RECURSIVE UnifyLoop(_, _, _, _)
UnifyLoop(hp, regs, pdl, seen) ==
    IF pdl = <<>> THEN UnifyResult(hp, regs, FALSE, "done")
    ELSE IF <<hp, regs, pdl>> \in seen THEN UnifyResult(hp, regs, FALSE, "spin")
    ELSE IF Len(pdl) > MaxPdl THEN UnifyResult(hp, regs, FALSE, "overflow")
    ELSE
    LET n == Len(pdl)
        rest == SubSeq(pdl, 1, n - 2)
        seen2 == seen \cup {<<hp, regs, pdl>>}
        d1 == deref(hp, regs, pdl[n])
        d2 == deref(hp, regs, pdl[n - 1])
    IN  IF d1 = PanicAddr THEN UnifyResult(hp, regs, FALSE, "panic")
        ELSE IF d1 = HangAddr THEN UnifyResult(hp, regs, FALSE, "hung")
        ELSE IF d2 = PanicAddr THEN UnifyResult(hp, regs, FALSE, "panic")
        ELSE IF d2 = HangAddr THEN UnifyResult(hp, regs, FALSE, "hung")
        ELSE IF d1 = d2 THEN UnifyLoop(hp, regs, rest, seen2)
        ELSE
        LET c1 == lookup(hp, regs, d1)
            c2 == lookup(hp, regs, d2)
        IN  IF c1.tag = "Ref"
            THEN LET b == bind(hp, regs, d2, c1.n)
                 IN  UnifyLoop(b.heap, b.regs, rest, seen2)
            ELSE IF c2.tag = "Ref"
            THEN LET b == bind(hp, regs, d1, c2.n)
                 IN  UnifyLoop(b.heap, b.regs, rest, seen2)
            ELSE IF c1.tag = "Str" /\ c2.tag = "Str"
            THEN IF ~InHeap(hp, c1.n) \/ ~InHeap(hp, c2.n)
                 THEN UnifyResult(hp, regs, FALSE, "panic")
                 ELSE
                 LET r1 == At(hp, c1.n)
                     r2 == At(hp, c2.n)
                 IN  IF /\ r1.tag = "NamedStr"
                        /\ r2.tag = "NamedStr"
                        /\ r1.n = r2.n
                        /\ r1.f = r2.f
                     THEN UnifyLoop(hp, regs,
                                    rest \o ArgPairs(c1.n, c2.n, r1.n), seen2)
                     ELSE UnifyResult(hp, regs, TRUE, "done")
            ELSE UnifyResult(hp, regs, TRUE, "done")

\* unify without its self.fail = false: a fail that is set ends the loop
\* before its first turn
unifyKeepsFail(hp, regs, a1, a2) ==
    IF fail THEN UnifyResult(hp, regs, TRUE, "done")
    ELSE UnifyLoop(hp, regs, <<a1, a2>>, {})

\* unify that seeds its worklist in the other order: a1 is inspected first
unifySwapped(hp, regs, a1, a2) == UnifyLoop(hp, regs, <<a2, a1>>, {})

\* unify(a1, a2): pdl = vec![a1, a2]; fail = false; the loop
unify(hp, regs, a1, a2) == UnifyLoop(hp, regs, <<a1, a2>>, {})

\* ------------------------------------------------------------ execute
\* The fields of a Machine that execute reads and writes, and how the call
\* ended: "ok", "panic" (an index out of bounds), "hung", "spin", "overflow".
MState(hp, regs, hh, ss, fl, md, out) ==
    [heap |-> hp, regs |-> regs, h |-> hh, s |-> ss, fail |-> fl,
     mode |-> md, out |-> out]

Cur == MState(heap, registers, h, s, fail, mode, "ok")

Ended(m, out) == [m EXCEPT !.out = out]

\* GetStructure that compares the functor name and not the arity
GetStructureNameOnly(m, name, arity, reg) ==
    LET c == m.regs[reg]
    IN  IF c.tag = "Str"
        THEN IF At(m.heap, c.n).tag = "NamedStr" /\ At(m.heap, c.n).f = name
             THEN [m EXCEPT !.s = c.n + 1, !.mode = "Read"]
             ELSE [m EXCEPT !.fail = TRUE]
        ELSE IF c.tag = "Ref"
        THEN LET pushed == m.heap \o <<Str(m.h + 1), NamedStr(arity, name)>>
                 b == bind(pushed, m.regs, RegNum(c.n), m.h)
             IN  [m EXCEPT !.heap = b.heap, !.regs = b.regs,
                            !.h = m.h + 2, !.mode = "Write"]
        ELSE [m EXCEPT !.fail = TRUE]

\* MachineInstruction::GetStructure(name, arity, reg)
GetStructure(m, name, arity, reg) ==
    LET addr == deref(m.heap, m.regs, RegNum(reg))
    IN  IF addr = PanicAddr THEN Ended(m, "panic")
        ELSE IF addr = HangAddr THEN Ended(m, "hung")
        ELSE
        LET c == lookup(m.heap, m.regs, addr)
        IN  IF c.tag = "Str"
            THEN IF ~InHeap(m.heap, c.n) THEN Ended(m, "panic")
                 ELSE LET result == At(m.heap, c.n)
                      IN  IF result.tag = "NamedStr"
                          THEN IF arity = result.n /\ name = result.f
                               THEN [m EXCEPT !.s = c.n + 1, !.mode = "Read"]
                               ELSE [m EXCEPT !.fail = TRUE]
                          ELSE m
            ELSE IF c.tag = "Ref"
            THEN \* the pattern Ref(reg) rebinds reg to the cell's target
                 LET pushed == m.heap \o <<Str(m.h + 1), NamedStr(arity, name)>>
                     b == bind(pushed, m.regs, RegNum(c.n), m.h)
                 IN  IF b.out = "panic"
                     THEN Ended([m EXCEPT !.heap = pushed], "panic")
                     ELSE [m EXCEPT !.heap = b.heap, !.regs = b.regs,
                                    !.h = m.h + 2, !.mode = "Write"]
            ELSE [m EXCEPT !.fail = TRUE]

\* MachineInstruction::PutStructure(name, arity, reg)
PutStructure(m, name, arity, reg) ==
    LET pushed == m.heap \o <<Str(m.h + 1), NamedStr(arity, name)>>
    IN  IF ~InHeap(pushed, m.h) \/ ~InRegs(reg)
        THEN Ended([m EXCEPT !.heap = pushed], "panic")
        ELSE [m EXCEPT !.heap = pushed,
                       !.regs = [m.regs EXCEPT ![reg] = At(pushed, m.h)],
                       !.h = m.h + 2]

\* SetVariable that pushes the cell and leaves the register alone
SetVariableNoCopy(m, reg) ==
    [m EXCEPT !.heap = Append(m.heap, Ref(m.h)), !.h = m.h + 1]

\* SetVariable that also switches the machine to Write mode
SetVariableWrites(m, reg) ==
    LET pushed == Append(m.heap, Ref(m.h))
    IN  [m EXCEPT !.heap = pushed,
                   !.regs = [m.regs EXCEPT ![reg] = At(pushed, m.h)],
                   !.h = m.h + 1, !.mode = "Write"]

\* MachineInstruction::SetVariable(reg)
SetVariable(m, reg) ==
    LET pushed == Append(m.heap, Ref(m.h))
    IN  IF ~InHeap(pushed, m.h) \/ ~InRegs(reg)
        THEN Ended([m EXCEPT !.heap = pushed], "panic")
        ELSE [m EXCEPT !.heap = pushed,
                       !.regs = [m.regs EXCEPT ![reg] = At(pushed, m.h)],
                       !.h = m.h + 1]

\* SetValue that pushes the cell and does not advance h
SetValueKeepsTop(m, reg) ==
    IF ~InRegs(reg) THEN Ended(m, "panic")
    ELSE [m EXCEPT !.heap = Append(m.heap, m.regs[reg])]

\* MachineInstruction::SetValue(reg)
SetValue(m, reg) ==
    IF ~InRegs(reg) THEN Ended(m, "panic")
    ELSE [m EXCEPT !.heap = Append(m.heap, m.regs[reg]), !.h = m.h + 1]

\* UnifyVariable that pushes a new variable in Read mode too
UnifyVariableAlwaysPushes(m, reg) ==
    LET w == SetVariable(m, reg)
    IN  IF w.out = "ok" THEN [w EXCEPT !.s = m.s + 1] ELSE w

\* MachineInstruction::UnifyVariable(reg)
UnifyVariable(m, reg) ==
    IF m.mode = "Read"
    THEN IF ~InHeap(m.heap, m.s) \/ ~InRegs(reg) THEN Ended(m, "panic")
         ELSE [m EXCEPT !.regs = [m.regs EXCEPT ![reg] = At(m.heap, m.s)],
                        !.s = m.s + 1]
    ELSE LET w == SetVariable(m, reg)
         IN  IF w.out = "ok" THEN [w EXCEPT !.s = m.s + 1] ELSE w

\* UnifyValue that advances s only when its unify call has not failed
UnifyValueStopsOnFail(m, reg) ==
    IF m.mode = "Read"
    THEN LET u == unify(m.heap, m.regs, RegNum(reg), HeapCell(m.s))
         IN  IF u.out = "done"
             THEN [m EXCEPT !.heap = u.heap, !.regs = u.regs, !.fail = u.fail,
                            !.s = IF u.fail THEN m.s ELSE m.s + 1]
             ELSE Ended([m EXCEPT !.heap = u.heap, !.regs = u.regs,
                                  !.fail = u.fail], u.out)
    ELSE LET w == SetValue(m, reg)
         IN  IF w.out = "ok" THEN [w EXCEPT !.s = m.s + 1] ELSE w

\* MachineInstruction::UnifyValue(reg)
UnifyValue(m, reg) ==
    IF m.mode = "Read"
    THEN LET u == unify(m.heap, m.regs, RegNum(reg), HeapCell(m.s))
         IN  IF u.out = "done"
             THEN [m EXCEPT !.heap = u.heap, !.regs = u.regs,
                            !.fail = u.fail, !.s = m.s + 1]
             ELSE Ended([m EXCEPT !.heap = u.heap, !.regs = u.regs,
                                  !.fail = u.fail], u.out)
    ELSE LET w == SetValue(m, reg)
         IN  IF w.out = "ok" THEN [w EXCEPT !.s = m.s + 1] ELSE w

\* ------------------------------------------------------------ lifecycle
\* Machine::new(), the program apart
NewMachine ==
    MState(<<>>, [r \in 0 .. NumRegs - 1 |-> Ref(0)], 0, 0, FALSE, "Write", "ok")

\* ------------------------------------------------------------ history
\* last: the operation that led to this state, fresh telling whether it
\* found the machine as new() leaves it; prev: the operation before it;
\* pre: the machine as the last operation found it.
IsFresh == Cur = NewMachine
NoAddr == [kind |-> "None", i |-> 0]
Op(op, name, arity, reg) ==
    [op |-> op, name |-> name, arity |-> arity, reg |-> reg, fresh |-> IsFresh,
     a1 |-> NoAddr, a2 |-> NoAddr]
\* a call of unify(a1, a2)
UnifyOp(a1, a2) == [Op("unify", "-", 0, 0) EXCEPT !.a1 = a1, !.a2 = a2]
NoOp == [op |-> "new", name |-> "-", arity |-> 0, reg |-> 0, fresh |-> TRUE,
         a1 |-> NoAddr, a2 |-> NoAddr]
Snapshot == [heap |-> heap, regs |-> registers, h |-> h, s |-> s,
             fail |-> fail, mode |-> mode, program |-> program]

\* ------------------------------------------------------------ actions
Init ==
    /\ heap = NewMachine.heap
    /\ registers = NewMachine.regs
    /\ h = NewMachine.h
    /\ s = NewMachine.s
    /\ fail = NewMachine.fail
    /\ mode = NewMachine.mode
    /\ program = "None"
    /\ pc = "ready"
    /\ last = NoOp
    /\ prev = NoOp
    /\ pre = Snapshot
    /\ pending = 0

\* the machine after a call that ended as m; cap bounds the heap of the model
Becomes(m, op, cap) ==
    /\ Len(m.heap) <= cap
    /\ heap' = m.heap
    /\ registers' = m.regs
    /\ h' = m.h
    /\ s' = m.s
    /\ fail' = m.fail
    /\ mode' = m.mode
    /\ pc' = IF m.out = "ok" THEN "ready" ELSE m.out
    /\ last' = op
    /\ prev' = last
    /\ pre' = Snapshot

\* execute(instr), one action per instruction
ExecGetStructure(name, arity, reg, cap) ==
    /\ pc = "ready"
    /\ Becomes(GetStructure(Cur, name, arity, reg),
               Op("GetStructure", name, arity, reg), cap)
    /\ UNCHANGED program

ExecPutStructure(name, arity, reg, cap) ==
    /\ pc = "ready"
    /\ Becomes(PutStructure(Cur, name, arity, reg),
               Op("PutStructure", name, arity, reg), cap)
    /\ UNCHANGED program

ExecSetVariable(reg, cap) ==
    /\ pc = "ready"
    /\ Becomes(SetVariable(Cur, reg), Op("SetVariable", "-", 0, reg), cap)
    /\ UNCHANGED program

ExecSetValue(reg, cap) ==
    /\ pc = "ready"
    /\ Becomes(SetValue(Cur, reg), Op("SetValue", "-", 0, reg), cap)
    /\ UNCHANGED program

ExecUnifyVariable(reg, cap) ==
    /\ pc = "ready"
    /\ Becomes(UnifyVariable(Cur, reg), Op("UnifyVariable", "-", 0, reg), cap)
    /\ UNCHANGED program

ExecUnifyValue(reg, cap) ==
    /\ pc = "ready"
    /\ Becomes(UnifyValue(Cur, reg), Op("UnifyValue", "-", 0, reg), cap)
    /\ UNCHANGED program

\* reset_heap that does not put the program back
ResetHeapDropsProgram ==
    /\ pc = "ready"
    /\ Becomes(NewMachine, Op("reset_heap", "-", 0, 0), 0)
    /\ program' = "None"

\* reset_heap: program.take(); *self = Machine::new(); program put back
ResetHeap ==
    /\ pc = "ready"
    /\ LET taken == program
       IN  /\ Becomes(NewMachine, Op("reset_heap", "-", 0, 0), 0)
           /\ program' = taken

\* the caller's assignment to the public field program
AttachProgram(p) ==
    /\ pc = "ready"
    /\ program # p
    /\ program' = p
    /\ last' = Op("attach", "-", 0, 0)
    /\ prev' = last
    /\ pre' = Snapshot
    /\ UNCHANGED <<heap, registers, h, s, fail, mode, pc>>

\* any instruction over the given names, arities and registers
Execute(names, arities, regs, cap) ==
    \/ \E name \in names, arity \in arities, reg \in regs :
           ExecGetStructure(name, arity, reg, cap)
    \/ \E name \in names, arity \in arities, reg \in regs :
           ExecPutStructure(name, arity, reg, cap)
    \/ \E reg \in regs : ExecSetVariable(reg, cap)
    \/ \E reg \in regs : ExecSetValue(reg, cap)
    \/ \E reg \in regs : ExecUnifyVariable(reg, cap)
    \/ \E reg \in regs : ExecUnifyValue(reg, cap)

Next ==
    \/ Execute(Names, Arities, Regs, MaxHeap) /\ UNCHANGED pending
    \/ ResetHeap /\ UNCHANGED pending
    \/ \E p \in Programs : AttachProgram(p) /\ UNCHANGED pending

Spec == Init /\ [][Next]_vars

\* Programs over one functor of arity 1 and three registers, four heap cells
NextRef ==
    \/ Execute({"f"}, {1}, {0, 1, 2}, MaxHeapRef) /\ UNCHANGED <<pending>>
    \/ ResetHeap /\ UNCHANGED pending

SpecRef == Init /\ [][NextRef]_vars

\* Programs over one functor of arity 2 and two registers, five heap cells
NextLoop ==
    \/ Execute({"f"}, {2}, {1, 2}, MaxHeapLoop) /\ UNCHANGED <<pending>>
    \/ ResetHeap /\ UNCHANGED pending

SpecLoop == Init /\ [][NextLoop]_vars

\* Programs that build ground terms and unify them: a PutStructure of
\* arity n is followed by n SetValue of registers that hold finished
\* structures (pending counts the arguments still to come); then
\* GetStructure runs on registers that hold a structure of its functor and
\* arity, and read-mode UnifyValue on registers that hold structures, with
\* the cursor on a structure-pointer cell.
GroundNames == {"f", "g"}
GroundArities == {0, 1, 2}
GroundRegs == {0, 1, 2}

\* the header of the structure under construction: the last one pushed
LastHeader(hp) ==
    LET hs == {k \in 0 .. Len(hp) - 1 : At(hp, k).tag = "NamedStr"}
    IN  CHOOSE k \in hs : \A j \in hs : j <= k

GroundPut(name, arity, reg) ==
    /\ pending = 0
    /\ mode = "Write"
    /\ Len(heap) + 2 + arity <= MaxHeapGround
    /\ ExecPutStructure(name, arity, reg, MaxHeapGround)
    /\ pending' = arity

GroundSetValue(reg) ==
    /\ pending > 0
    /\ registers[reg].tag = "Str"
    /\ registers[reg].n # LastHeader(heap)
    /\ ExecSetValue(reg, MaxHeapGround)
    /\ pending' = pending - 1

GroundGet(name, arity, reg) ==
    /\ pending = 0
    /\ registers[reg].tag = "Str"
    /\ At(heap, registers[reg].n) = NamedStr(arity, name)
    /\ ExecGetStructure(name, arity, reg, MaxHeapGround)
    /\ UNCHANGED pending

GroundUnifyValue(reg) ==
    /\ pending = 0
    /\ mode = "Read"
    /\ registers[reg].tag = "Str"
    /\ InHeap(heap, s)
    /\ At(heap, s).tag = "Str"
    /\ ExecUnifyValue(reg, MaxHeapGround)
    /\ UNCHANGED pending

NextGround ==
    \/ \E name \in GroundNames, arity \in GroundArities, reg \in GroundRegs :
           GroundPut(name, arity, reg)
    \/ \E reg \in GroundRegs : GroundSetValue(reg)
    \/ \E name \in GroundNames, arity \in GroundArities, reg \in GroundRegs :
           GroundGet(name, arity, reg)
    \/ \E reg \in GroundRegs : GroundUnifyValue(reg)

SpecGround == Init /\ [][NextGround]_vars

\* unify(a1, a2) called on any two addresses of the machine a program has
\* built.  The state at its return is kept for inspection (pc = "returned")
\* and the machine is not run further from it.
Addresses(regs) ==
    {HeapCell(k) : k \in 0 .. Len(heap) - 1} \cup {RegNum(r) : r \in regs}

UnifyCall(a1, a2) ==
    /\ pc = "ready"
    /\ LET u == unify(heap, registers, a1, a2)
       IN  /\ heap' = u.heap
           /\ registers' = u.regs
           /\ fail' = u.fail
           /\ pc' = IF u.out = "done" THEN "returned" ELSE u.out
    /\ last' = UnifyOp(a1, a2)
    /\ prev' = last
    /\ pre' = Snapshot
    /\ UNCHANGED <<h, s, mode, program>>

NextUnify ==
    \/ Execute({"f", "g"}, {1}, {0, 1}, MaxHeapUnify) /\ UNCHANGED pending
    \/ \E a1 \in Addresses({0, 1}), a2 \in Addresses({0, 1}) :
           UnifyCall(a1, a2) /\ UNCHANGED pending

SpecUnify == Init /\ [][NextUnify]_vars

\* Compiled programs over the functor f/1 that allocate many cells: every
\* PutStructure is followed by its one SetVariable and every GetStructure
\* by its one UnifyVariable (pending is the number of argument
\* instructions still to come).
MaxHeapLong == 38
LongRegs == {0}

LongPut(reg) ==
    /\ pending = 0
    /\ ExecPutStructure("f", 1, reg, MaxHeapLong)
    /\ pending' = 1

LongSetVariable(reg) ==
    /\ pending = 1
    /\ last.op = "PutStructure"
    /\ ExecSetVariable(reg, MaxHeapLong)
    /\ pending' = 0

LongGet(reg) ==
    /\ pending = 0
    /\ ExecGetStructure("f", 1, reg, MaxHeapLong)
    /\ pending' = 1

LongUnifyVariable(reg) ==
    /\ pending = 1
    /\ last.op = "GetStructure"
    /\ ExecUnifyVariable(reg, MaxHeapLong)
    /\ pending' = 0

NextLong ==
    \/ \E reg \in LongRegs : LongPut(reg)
    \/ \E reg \in LongRegs : LongSetVariable(reg)
    \/ \E reg \in LongRegs : LongGet(reg)
    \/ \E reg \in LongRegs : LongUnifyVariable(reg)

SpecLong == Init /\ [][NextLong]_vars

\* Programs in which every PutStructure and GetStructure of arity n is
\* followed by exactly n instructions out of SetVariable, SetValue,
\* UnifyVariable and UnifyValue (pending counts those still to come).
MaxHeapFormed == 4
FormedNames == {"f", "g"}
FormedArities == {0, 1}
FormedRegs == {0, 1}

FormedPut(name, arity, reg) ==
    /\ pending = 0
    /\ ExecPutStructure(name, arity, reg, MaxHeapFormed)
    /\ pending' = arity

FormedGet(name, arity, reg) ==
    /\ pending = 0
    /\ ExecGetStructure(name, arity, reg, MaxHeapFormed)
    /\ pending' = arity

FormedArgument(reg) ==
    /\ pending > 0
    /\ \/ ExecSetVariable(reg, MaxHeapFormed)
       \/ ExecSetValue(reg, MaxHeapFormed)
       \/ ExecUnifyVariable(reg, MaxHeapFormed)
       \/ ExecUnifyValue(reg, MaxHeapFormed)
    /\ pending' = pending - 1

NextFormed ==
    \/ \E name \in FormedNames, arity \in FormedArities, reg \in FormedRegs :
           FormedPut(name, arity, reg)
    \/ \E name \in FormedNames, arity \in FormedArities, reg \in FormedRegs :
           FormedGet(name, arity, reg)
    \/ \E reg \in FormedRegs : FormedArgument(reg)

SpecFormed == Init /\ [][NextFormed]_vars

\* ------------------------------------------------------------ claims
AllRegs == 0 .. NumRegs - 1

\* C1: after any sequence of operations, reset_heap leaves the heap empty,
\* h = 0, s = 0, all 33 registers holding Ref(0), mode = Write, fail = false
\* and the program that was attached before the call.
C1_ResetRestoresNew ==
    last.op = "reset_heap" =>
        /\ pc = "ready"
        /\ Len(heap) = 0
        /\ h = 0
        /\ s = 0
        /\ DOMAIN registers = AllRegs
        /\ \A r \in AllRegs : registers[r] = Ref(0)
        /\ mode = "Write"
        /\ fail = FALSE
        /\ program = pre.program

\* reset_heap has run on a machine in Read mode with fail set, a heap that is
\* not empty and a program attached
C1_Witness ==
    /\ last.op = "reset_heap"
    /\ pre.fail
    /\ pre.mode = "Read"
    /\ Len(pre.heap) > 0
    /\ pre.program # "None"

\* Structural equality of the ground terms two structure-pointer cells
\* denote: same functor and arity, and the arguments 1 .. arity equal.
RECURSIVE TermEq(_, _, _)
TermEq(hp, c1, c2) ==
    LET r1 == At(hp, c1.n)
        r2 == At(hp, c2.n)
    IN  /\ r1.f = r2.f
        /\ r1.n = r2.n
        /\ \A i \in 1 .. r1.n : TermEq(hp, At(hp, c1.n + i), At(hp, c2.n + i))

\* C2: for ground terms, a unify call on two structure cells ends with
\* fail = false if and only if the two terms are structurally equal.
C2_GroundUnifyIsEquality ==
    (/\ last.op = "UnifyValue" /\ pre.mode = "Read"
     /\ pre.regs[last.reg].tag = "Str" /\ At(pre.heap, pre.s).tag = "Str")
    => /\ pc = "ready"
       /\ (fail = FALSE) <=> TermEq(pre.heap, pre.regs[last.reg], At(pre.heap, pre.s))

\* C3 as stated: in a fresh machine PutStructure(f, 1, R) then SetVariable(R)
\* leaves heap = [Str(1), NamedStr(1, f), Ref(2)] and R holding Str(1).
C3_Original ==
    (/\ prev.op = "PutStructure" /\ prev.fresh /\ prev.arity = 1
     /\ last.op = "SetVariable" /\ last.reg = prev.reg)
    => /\ heap = <<Str(1), NamedStr(1, prev.name), Ref(2)>>
       /\ registers[prev.reg] = Str(1)

\* C3 amended: in a fresh machine PutStructure(f, 1, R) then SetVariable(R2)
\* leaves heap = [Str(1), NamedStr(1, f), Ref(2)], R2 holding the new
\* variable cell Ref(2), and R holding Str(1) exactly when R2 is not R.
C3_PutThenSetVariable ==
    (/\ prev.op = "PutStructure" /\ prev.fresh /\ prev.arity = 1
     /\ last.op = "SetVariable")
    => /\ pc = "ready"
       /\ heap = <<Str(1), NamedStr(1, prev.name), Ref(2)>>
       /\ h = 3
       /\ registers[last.reg] = Ref(2)
       /\ (registers[prev.reg] = Str(1)) <=> (last.reg # prev.reg)

\* the two instructions have run on a fresh machine, on the same register
C3_Witness ==
    /\ prev.op = "PutStructure" /\ prev.fresh /\ prev.arity = 1
    /\ last.op = "SetVariable" /\ last.reg = prev.reg
    /\ Len(heap) = 3

\* C4: after any sequence of instructions, deref of every register and of
\* every heap address returns: the Ref cells of the heap form no cycle of
\* two or more cells.
C4_DerefReturns ==
    /\ \A k \in 0 .. Len(heap) - 1 : deref(heap, registers, HeapCell(k)) # HangAddr
    /\ \A r \in AllRegs : deref(heap, registers, RegNum(r)) # HangAddr

\* C5: every unify call started by a read-mode UnifyValue returns, with the
\* worklist empty or with fail set, also when the terms are cyclic.
C5_UnifyReturns ==
    (last.op = "UnifyValue" /\ pre.mode = "Read") => pc \notin {"spin", "hung"}

\* The cell a register stands for when its reference is followed into the
\* heap: the register's own cell unless it is a Ref to a heap cell, and
\* then the cell at the end of that cell's chain.
Denoted(hp, regs, reg) ==
    LET c == regs[reg]
    IN  IF c.tag = "Ref" /\ InHeap(hp, c.n)
        THEN LET d == deref(hp, regs, HeapCell(c.n))
             IN  IF IsAddr(d) THEN lookup(hp, regs, d) ELSE c
        ELSE c

\* C6: GetStructure(functor, arity, reg) on a register that dereferences,
\* directly or through bound references, to a structure pointer whose header
\* is (functor, arity) sets mode = Read and s to the header's index + 1, and
\* leaves the heap and h as they were.
C6_MatchReads ==
    LET t == Denoted(pre.heap, pre.regs, last.reg)
    IN  (/\ last.op = "GetStructure"
         /\ t.tag = "Str"
         /\ InHeap(pre.heap, t.n)
         /\ At(pre.heap, t.n) = NamedStr(last.arity, last.name))
        => /\ pc = "ready"
           /\ mode = "Read"
           /\ s = t.n + 1
           /\ heap = pre.heap
           /\ h = pre.h

\* the heap address a register stands for after following its reference
DenotedAddr(hp, regs, reg) ==
    LET c == regs[reg]
    IN  IF c.tag = "Ref" /\ InHeap(hp, c.n)
        THEN deref(hp, regs, HeapCell(c.n))
        ELSE RegNum(reg)

\* C7: GetStructure(functor, arity, reg) on a register holding an unbound
\* variable appends Str(h + 1) and NamedStr(arity, functor), sets mode =
\* Write and binds the variable: afterwards reg and the heap variable both
\* dereference to the new structure-pointer cell, and no other register has
\* changed.
C7_UnboundAllocatesAndBinds ==
    LET v == pre.regs[last.reg]
    IN  (/\ last.op = "GetStructure"
         /\ v.tag = "Ref"
         /\ InHeap(pre.heap, v.n)
         /\ At(pre.heap, v.n) = Ref(v.n))
        => /\ pc = "ready"
           /\ Len(heap) = Len(pre.heap) + 2
           /\ At(heap, pre.h) = Str(pre.h + 1)
           /\ At(heap, pre.h + 1) = NamedStr(last.arity, last.name)
           /\ mode = "Write"
           /\ DenotedAddr(heap, registers, last.reg) = HeapCell(pre.h)
           /\ deref(heap, registers, HeapCell(v.n)) = HeapCell(pre.h)
           /\ \A r \in AllRegs \ {last.reg} : registers[r] = pre.regs[r]

\* C8: GetStructure(functor, arity, reg) on a register holding a structure
\* pointer whose header differs from (functor, arity) in name or in arity
\* sets fail and leaves mode, s, h, the heap and the registers as they were.
C8_MismatchOnlyFails ==
    LET c == pre.regs[last.reg]
    IN  (/\ last.op = "GetStructure"
         /\ c.tag = "Str"
         /\ InHeap(pre.heap, c.n)
         /\ At(pre.heap, c.n).tag = "NamedStr"
         /\ At(pre.heap, c.n) # NamedStr(last.arity, last.name))
        => /\ pc = "ready"
           /\ fail = TRUE
           /\ mode = pre.mode
           /\ s = pre.s
           /\ h = pre.h
           /\ heap = pre.heap
           /\ registers = pre.regs

\* GetStructure has met, in Read mode with fail clear, a header of its
\* functor name and of another arity
C8_Witness ==
    LET c == pre.regs[last.reg]
    IN  /\ last.op = "GetStructure"
        /\ c.tag = "Str"
        /\ At(pre.heap, c.n).tag = "NamedStr"
        /\ At(pre.heap, c.n).f = last.name
        /\ At(pre.heap, c.n).n # last.arity
        /\ pre.mode = "Read"
        /\ ~pre.fail

\* the structure with header index a has an argument cell that
\* dereferences to the heap cell v
HasArgument(hp, regs, a, v) ==
    /\ InHeap(hp, a)
    /\ At(hp, a).tag = "NamedStr"
    /\ \E i \in 1 .. At(hp, a).n :
           /\ InHeap(hp, a + i)
           /\ deref(hp, regs, HeapCell(a + i)) = HeapCell(v)

\* the unify call of a read-mode UnifyValue meets an unbound heap variable
\* at the cursor and, in the register, a structure with that variable as
\* an argument
VarAtCursor ==
    LET d == deref(pre.heap, pre.regs, HeapCell(pre.s))
        c == pre.regs[last.reg]
    IN  /\ last.op = "UnifyValue" /\ pre.mode = "Read"
        /\ IsAddr(d)
        /\ lookup(pre.heap, pre.regs, d).tag = "Ref"
        /\ c.tag = "Str"
        /\ HasArgument(pre.heap, pre.regs, c.n, d.i)

\* ... meets a register that refers to an unbound heap variable and, at the
\* cursor, a structure with that variable as an argument
VarInRegister ==
    LET d == deref(pre.heap, pre.regs, HeapCell(pre.s))
        c == pre.regs[last.reg]
    IN  /\ last.op = "UnifyValue" /\ pre.mode = "Read"
        /\ IsAddr(d)
        /\ lookup(pre.heap, pre.regs, d).tag = "Str"
        /\ c.tag = "Ref"
        /\ InHeap(pre.heap, c.n)
        /\ At(pre.heap, c.n) = Ref(c.n)
        /\ HasArgument(pre.heap, pre.regs, lookup(pre.heap, pre.regs, d).n, c.n)

\* C10: no occurs-check: a unify call between an unbound variable and a
\* structure that has that variable as an argument returns with fail = false.
C10_NoOccursCheck ==
    (VarAtCursor \/ VarInRegister) => (pc = "ready" /\ fail = FALSE)

\* such a call has run, fail being set before it
C10_Witness ==
    /\ VarAtCursor
    /\ pre.fail
    /\ pc = "ready"

\* the two addresses of the last unify call dereferenced to one location
SameLocation ==
    LET d1 == deref(pre.heap, pre.regs, last.a1)
        d2 == deref(pre.heap, pre.regs, last.a2)
    IN  last.op = "unify" /\ IsAddr(d1) /\ d1 = d2

\* C9: a unify call on two addresses that dereference to the same location
\* ends with fail = false and leaves every heap cell and every register
\* unchanged.
C9_SameLocationNoOp ==
    SameLocation =>
        /\ pc = "returned"
        /\ fail = FALSE
        /\ heap = pre.heap
        /\ registers = pre.regs

\* unify has been called on two different addresses that dereference to the
\* same location, fail being set before the call
C9_Witness ==
    /\ SameLocation
    /\ last.a1 # last.a2
    /\ pre.fail


\* C11: after new(), after every execute() call that returns, whatever the
\* instruction and the mode, and after reset_heap, h equals the length of
\* the heap.
C11_TopIsLength ==
    pc = "ready" => h = Len(heap)

\* a GetStructure has allocated a structure on a heap that was not empty
C11_Witness ==
    /\ pc = "ready"
    /\ last.op = "GetStructure"
    /\ Len(pre.heap) > 0
    /\ Len(heap) = Len(pre.heap) + 2
    /\ h = pre.h + 2


\* the instructions other than GetStructure
NoModeChange ==
    {"PutStructure", "SetVariable", "SetValue", "UnifyVariable", "UnifyValue"}

FirstInspected == deref(pre.heap, pre.regs, last.a2)
SecondInspected == deref(pre.heap, pre.regs, last.a1)

\* d is an unbound variable of the heap: a cell that refers to itself
UnboundVar(hp, d) ==
    /\ d.kind = "HeapCell"
    /\ InHeap(hp, d.i)
    /\ At(hp, d.i) = Ref(d.i)

\* the cell at d is a structure pointer to a header of the heap
StructurePointer(hp, regs, d) ==
    /\ IsAddr(d)
    /\ InBounds(hp, d)
    /\ lookup(hp, regs, d).tag = "Str"
    /\ InHeap(hp, lookup(hp, regs, d).n)
    /\ At(hp, lookup(hp, regs, d).n).tag = "NamedStr"

\* the last unify call met an unbound variable on one side and a structure
\* pointer on the other
VarMeetsStructure ==
    /\ last.op = "unify"
    /\ \/ UnboundVar(pre.heap, FirstInspected)
          /\ StructurePointer(pre.heap, pre.regs, SecondInspected)
       \/ UnboundVar(pre.heap, SecondInspected)
          /\ StructurePointer(pre.heap, pre.regs, FirstInspected)

\* C13: a unify call that meets an unbound variable on one side and a
\* structure pointer on the other overwrites the variable's cell, leaves the
\* structure-pointer cell as it was, and afterwards both addresses
\* dereference to a cell holding that structure pointer.
C13_BindsTheVariable ==
    VarMeetsStructure =>
        LET var == IF UnboundVar(pre.heap, FirstInspected)
                   THEN FirstInspected ELSE SecondInspected
            str == IF UnboundVar(pre.heap, FirstInspected)
                   THEN SecondInspected ELSE FirstInspected
            ptr == lookup(pre.heap, pre.regs, str)
        IN  /\ pc = "returned"
            /\ lookup(heap, registers, str) = ptr
            /\ lookup(heap, registers, var) # lookup(pre.heap, pre.regs, var)
            /\ \A a \in {last.a1, last.a2} :
                   LET e == deref(heap, registers, a)
                   IN  IsAddr(e) /\ lookup(heap, registers, e) = ptr


\* the last unify call met two different locations that both hold a
\* reference cell at which deref stops: unbound variables of the heap, or
\* registers holding a reference
TwoVariables ==
    /\ last.op = "unify"
    /\ IsAddr(FirstInspected)
    /\ IsAddr(SecondInspected)
    /\ FirstInspected # SecondInspected
    /\ lookup(pre.heap, pre.regs, FirstInspected).tag = "Ref"
    /\ lookup(pre.heap, pre.regs, SecondInspected).tag = "Ref"

\* C14: a unify call that meets two distinct unbound variables overwrites
\* the cell at the second-inspected address with a reference to the target
\* of the first-inspected cell, leaves the first-inspected cell and every
\* other cell as they were, and returns with fail = false.
C14_SecondBoundToFirst ==
    TwoVariables =>
        LET c1 == lookup(pre.heap, pre.regs, FirstInspected)
            b == bind(pre.heap, pre.regs, SecondInspected, c1.n)
        IN  /\ pc = "returned"
            /\ fail = FALSE
            /\ lookup(heap, registers, SecondInspected) = Ref(c1.n)
            /\ lookup(heap, registers, FirstInspected) = c1
            /\ heap = b.heap
            /\ registers = b.regs

\* unify has been called on two distinct unbound variables of the heap and
\* the second-inspected one now refers to the first
C14_Witness ==
    /\ TwoVariables
    /\ UnboundVar(pre.heap, FirstInspected)
    /\ UnboundVar(pre.heap, SecondInspected)
    /\ pc = "returned"
    /\ At(heap, SecondInspected.i) = Ref(FirstInspected.i)
    /\ UnboundVar(heap, FirstInspected)


\* the last instruction was a GetStructure that succeeded: it matched the
\* header its register points at, or it allocated a structure
GetStructureSucceeded ==
    LET c == pre.regs[last.reg]
    IN  /\ last.op = "GetStructure"
        /\ pc = "ready"
        /\ \/ /\ c.tag = "Str"
              /\ InHeap(pre.heap, c.n)
              /\ At(pre.heap, c.n) = NamedStr(last.arity, last.name)
           \/ Len(heap) = Len(pre.heap) + 2

\* C15: fail is the result of the last attempt: after a GetStructure that
\* matches a structure or allocates one fail is false, whatever it was
\* before; and the fail a read-mode UnifyValue leaves is the one its unify
\* call computes from a cleared flag.
C15_FailIsLastResult ==
    /\ GetStructureSucceeded => fail = FALSE
    /\ (last.op = "UnifyValue" /\ pre.mode = "Read") =>
           fail = UnifyLoop(pre.heap, pre.regs,
                            <<RegNum(last.reg), HeapCell(pre.s)>>, {}).fail


\* C16: every UnifyVariable and UnifyValue that returns has increased s by
\* exactly one, in Read mode and in Write mode, whether or not unify has set
\* fail; PutStructure, SetVariable and SetValue leave s as it was.
C16_CursorAdvancesByOne ==
    /\ (last.op \in {"UnifyVariable", "UnifyValue"} /\ pc = "ready") =>
           s = pre.s + 1
    /\ last.op \in {"PutStructure", "SetVariable", "SetValue"} => s = pre.s

\* a read-mode UnifyValue whose unify call has set fail has returned
C16_Witness ==
    /\ last.op = "UnifyValue"
    /\ pre.mode = "Read"
    /\ pc = "ready"
    /\ fail
    /\ s = pre.s + 1


\* the heap is k cells longer than the last operation found it
Grown(k) == Len(heap) = Len(pre.heap) + k

\* the register cell c is an unbound variable: a reference to a heap cell
\* that refers to itself, or the reference a new machine's registers hold
UnboundCell(hp, c) ==
    /\ c.tag = "Ref"
    /\ InHeap(hp, c.n) => At(hp, c.n) = Ref(c.n)

C18_NoOutOfBounds ==
    pc # "panic"


\* every structure-pointer cell of the heap and of the registers points at
\* a header of the heap
PointersValid ==
    /\ \A k \in 0 .. Len(heap) - 1 :
           At(heap, k).tag = "Str" =>
               /\ InHeap(heap, At(heap, k).n)
               /\ At(heap, At(heap, k).n).tag = "NamedStr"
    /\ \A r \in AllRegs :
           registers[r].tag = "Str" =>
               /\ InHeap(heap, registers[r].n)
               /\ At(heap, registers[r].n).tag = "NamedStr"

\* the bindings of the last instruction (those of unify in a read-mode
\* UnifyValue, that of GetStructure) have left every structure-pointer
\* cell and every header cell as it was
NoStructureCellRebound ==
    /\ last.op \notin {"new", "reset_heap"} =>
           \A k \in 0 .. Len(pre.heap) - 1 :
               At(pre.heap, k).tag \in {"Str", "NamedStr"} =>
                   At(heap, k) = At(pre.heap, k)
    /\ (last.op = "GetStructure" \/ (last.op = "UnifyValue" /\ pre.mode = "Read")) =>
           \A r \in AllRegs :
               pre.regs[r].tag \in {"Str", "NamedStr"} =>
                   registers[r] = pre.regs[r]

\* C19: in every state of a program in which every PutStructure and
\* GetStructure of arity n is followed by exactly n set or unify
\* instructions, every structure-pointer cell Str(a) of the heap and of the
\* registers has a below the heap length and a header at heap[a], and no
\* binding has overwritten a structure-pointer cell or a header cell.
C19_StructureCellsKept ==
    PointersValid /\ NoStructureCellRebound

====
